---- MODULE Spec2Model ----
(***************************************************************************)
(* Model of the two operator utilities of AutoTrade-Shell:                 *)
(*   tools/del_dir.py  - sweeper of stale /tmp working directories         *)
(*   tools/xmledit.py  - viewer / editor of bot_config.xml                 *)
(* Text is modelled as sequences of one-character strings, paths as        *)
(* sequences of components (each component a sequence of characters).      *)
(***************************************************************************)
EXTENDS Integers, Sequences, FiniteSets, TLC

(* ----------------------------- bounds ---------------------------------- *)
\* most directories below /tmp in an initial tree
MaxDirs == 3
\* deepest nesting below /tmp: the tree may be one chain but for one directory
MaxDepth == MaxDirs - 1
\* most directories whose content cannot be removed (permission, busy file)
MaxLocked == 1
\* most lines of a marker file in the resolver specification
MaxLines == 3
\* most external removals of a directory during a sweep
MaxVanish == 1
\* most times the protected process moves to a new working directory
MaxSwitch == 1
\* most table records of a config document
MaxTables == 2

\* Python's None where a path is expected: no path has an empty component
None == << <<>> >>

(* ----------------------------- text ------------------------------------ *)
\* the characters str.strip() removes
Whitespace == {" ", "\t", "\n", "\r"}

RECURSIVE LStrip(_)
LStrip(s) == IF s # <<>> /\ Head(s) \in Whitespace THEN LStrip(Tail(s)) ELSE s

RECURSIVE RStrip(_)
RStrip(s) ==
  IF s # <<>> /\ s[Len(s)] \in Whitespace THEN RStrip(SubSeq(s, 1, Len(s) - 1)) ELSE s

\* str.strip()
Strip(s) == RStrip(LStrip(s))

\* str.startswith(p)
StartsWith(s, p) == Len(s) >= Len(p) /\ SubSeq(s, 1, Len(p)) = p

Reverse(s) == [i \in 1..Len(s) |-> s[Len(s) + 1 - i]]

\* str.lower() on the letters the model uses
LowerChar(c) ==
  CASE c = "Y" -> "y" [] c = "E" -> "e" [] c = "S" -> "s" [] c = "N" -> "n" [] OTHER -> c

Lower(s) == [i \in 1..Len(s) |-> LowerChar(s[i])]

(* ----------------------------- paths ----------------------------------- *)
\* the components of a path text, split at "/"
RECURSIVE Split(_, _, _)
Split(s, cur, acc) ==
  IF s = <<>> THEN Append(acc, cur)
  ELSE IF Head(s) = "/" THEN Split(Tail(s), <<>>, Append(acc, cur))
  ELSE Split(Tail(s), Append(cur, Head(s)), acc)

Components(s) == Split(s, <<>>, <<>>)

Tmp == <<"t", "m", "p">>
NameA == <<"a">>
NameB == <<"b">>
NameL == <<"l">>

\* TMP_DIR = "/tmp"
TMP_DIR == <<Tmp>>
\* the "/tmp/" prefix a marker line must start with
TmpPrefix == <<"/", "t", "m", "p", "/">>

\* the symbolic link /tmp/l -> /tmp/b of the modelled file system
LinkPath == <<Tmp, NameL>>
LinkTarget == <<Tmp, NameB>>

DirNames == {NameA, NameB}

RECURSIVE SeqsUpTo(_, _)
SeqsUpTo(S, n) ==
  IF n = 0 THEN {<<>>}
  ELSE LET shorter == SeqsUpTo(S, n - 1)
       IN  shorter \cup {Append(q, x) : q \in {r \in shorter : Len(r) = n - 1}, x \in S}

\* every directory the model knows: /tmp and the directories below it, where
\* a directory below /tmp/a is named b and one below /tmp/b is named a
AllDirs ==
  {TMP_DIR \o q : q \in {r \in SeqsUpTo(DirNames, MaxDepth) :
                            \A i \in 1..(Len(r) - 1) : r[i] # r[i + 1]}}

Parent(p) == SubSeq(p, 1, Len(p) - 1)

IsPrefix(p, q) == Len(p) <= Len(q) /\ SubSeq(q, 1, Len(p)) = p

\* d and everything below it
Subtree(d, S) == {x \in S : IsPrefix(d, x)}

(* ------------------------- state of the sweeper ------------------------ *)
VARIABLES
  exists,        \* directories present in the file system
  sentinel,      \* directories that directly contain fx_debug_log.txt
  locked,        \* directories holding an entry that cannot be removed
  links,         \* symbolic links present (a subset of {LinkPath})
  markerExists,  \* whether last_temp.txt exists
  marker,        \* the lines of last_temp.txt
  pc,            \* position of the cleanup tool
  run,           \* "first" or "last" invocation of cleanup_tmp_dirs
  active_dir,    \* local of cleanup_tmp_dirs
  stack,         \* os.walk's frames of directories still to enter
  cur,           \* the (root, dirs, files) triple os.walk has yielded
  attempts,      \* per run: the roots a [DELETE] line was printed for
  errors,        \* per run: the roots an [ERROR] line was printed for
  skipped,       \* per run: the roots a [SKIP] line was printed for
  removed,       \* directories shutil.rmtree has removed so far
  listed,        \* directories os.walk has been handed in the current run
  sentinel0,     \* directories holding the sentinel before the first run
  vanished,      \* directories another process removed during the sweep
  inUse,         \* the directory the protected process is working in
  adopted,       \* directories the process moved to while a sweep ran
  switchCount    \* moves of the protected process so far

sweepVars ==
  <<exists, sentinel, locked, links, markerExists, marker, pc, run, active_dir,
    stack, cur, attempts, errors, skipped, removed, listed, sentinel0,
    vanished, inUse, adopted, switchCount>>

(* ------------------------- state of the config tool -------------------- *)
VARIABLES
  cfgExists,   \* whether bot_config.xml exists
  disk,        \* the content of bot_config.xml, as a sequence of tokens
  disk0,       \* its content when the tool was started
  argv,        \* sys.argv[1:]
  cpc,         \* position of the config tool
  tree,        \* the parsed document: its table records, in document order
  updated,     \* what update_config returned ("none" before the call)
  pending,     \* tokens tree.write still has to write
  out,         \* the messages printed, in order
  shown,       \* the table view_configs printed
  exitCode,    \* the exit status (-1 while the tool runs)
  prompted,    \* whether the restart question was asked
  restarted    \* whether Restart.sh was run

cfgVars ==
  <<cfgExists, disk, disk0, argv, cpc, tree, updated, pending, out, shown,
    exitCode, prompted, restarted>>

vars == <<sweepVars, cfgVars>>

(* ------------------------- os.path.realpath ---------------------------- *)
RECURSIVE Resolve(_, _, _)
Resolve(comps, done, lk) ==
  IF comps = <<>> THEN done
  ELSE LET c == Head(comps)
           rest == Tail(comps)
       IN  IF c = <<>> \/ c = <<".">> THEN Resolve(rest, done, lk)
           ELSE IF c = <<".", ".">>
             THEN Resolve(rest, IF done = <<>> THEN done ELSE Parent(done), lk)
           ELSE LET nxt == Append(done, c)
                IN  Resolve(rest, IF nxt \in lk THEN LinkTarget ELSE nxt, lk)

\* os.path.realpath of an absolute path text
realpath(text, lk) == Resolve(Components(text), <<>>, lk)

\* os.path.realpath of a path os.walk built
root_real(root, lk) == Resolve(root, <<>>, lk)

(* ------------------------- load_active_tmp_dir ------------------------- *)
\* [line.strip() for line in f.readlines() if line.strip()]
StrippedLines(raw) ==
  LET stripped == [i \in 1..Len(raw) |-> Strip(raw[i])]
  IN  SelectSeq(stripped, LAMBDA l : l # <<>>)

\* for line in reversed(lines): if line.startswith("/tmp/"): the hit, as <<line>>
RECURSIVE FirstTmpLineMut(_)
FirstTmpLineMut(lines) ==
  IF lines = <<>> THEN <<>>
  ELSE IF StartsWith(lines[1], TmpPrefix) THEN <<lines[1]>>
  ELSE FirstTmpLineMut(Tail(lines))

RECURSIVE ScanReversed(_)
ScanReversed(rev) ==
  IF rev = <<>> THEN <<>>
  ELSE IF StartsWith(Head(rev), TmpPrefix) THEN <<Head(rev)>>
  ELSE ScanReversed(Tail(rev))

FirstTmpLine(lines) == ScanReversed(Reverse(lines))

load_active_tmp_dir(mExists, raw, lk) ==
  IF ~mExists THEN None
  ELSE LET hit == FirstTmpLine(StrippedLines(raw))
       IN  IF hit = <<>> THEN None ELSE realpath(hit[1], lk)

(* ------------------------- cleanup_tmp_dirs ---------------------------- *)
Runs == {"first", "last"}

NoCur == [root |-> <<>>, dirs |-> {}, hasLog |-> FALSE]

\* the names scandir reports as directories of p: its directories, and its
\* links to a directory (entry.is_dir() follows links)
SubDirs(p) ==
  {d \in exists : Len(d) > 0 /\ Parent(d) = p /\ d # p}
    \cup {l \in links : Parent(l) = p /\ LinkTarget \in exists}

\* os.walk's pending work: one frame per directory it is inside of, holding
\* the listed sub-directories it has not entered yet (scandir lists them in
\* any order, so any of them may be next); innermost first
Push(frame, stk) == IF frame = {} THEN stk ELSE <<frame>> \o stk

\* active_dir = load_active_tmp_dir(); os.walk(TMP_DIR) starts
Start ==
  /\ pc = "start"
  /\ active_dir' = load_active_tmp_dir(markerExists, marker, links)
  /\ stack' = <<{TMP_DIR}>>
  /\ listed' = {TMP_DIR}
  /\ cur' = NoCur
  /\ pc' = "walk"
  /\ UNCHANGED <<exists, sentinel, locked, links, markerExists, marker, run,
                 attempts, errors, skipped, removed, sentinel0, vanished,
                 inUse, adopted, switchCount>>
  /\ UNCHANGED cfgVars

\* os.walk enters the next directory: a link is not followed, a directory
\* that is gone is passed over (onerror is None), any other is listed and
\* yielded to the loop body
Scan ==
  /\ pc = "walk"
  /\ stack # <<>>
  /\ \E p \in Head(stack) :
       /\ stack' = Push(Head(stack) \ {p}, Tail(stack))
       /\ IF p \in links \/ p \notin exists
            THEN UNCHANGED <<cur, pc>>
            ELSE /\ cur' = [root |-> p, dirs |-> SubDirs(p), hasLog |-> p \in sentinel]
                 /\ pc' = "body"
  /\ UNCHANGED <<exists, sentinel, locked, links, markerExists, marker, run,
                 active_dir, attempts, errors, skipped, removed, listed,
                 sentinel0, vanished, inUse, adopted, switchCount>>
  /\ UNCHANGED cfgVars

\* shutil.rmtree(d) removes depth first and raises at the first entry it
\* cannot remove. LockedPath: the directories of d's subtree that hold, or lie
\* above, a locked directory; none of them is removed
LockedPath(d) ==
  LET sub == Subtree(d, exists)
  IN  {x \in sub : \E l \in locked \cap sub : IsPrefix(x, l)}

\* what a failed rmtree(d) may have removed before it raised: some of the
\* subtrees that hang off the locked path, each of them whole
PartialRemovals(d) ==
  LET sub == Subtree(d, exists)
      off == {x \in sub \ LockedPath(d) : Parent(x) \in LockedPath(d)}
  IN  {UNION {Subtree(x, exists) : x \in C} : C \in SUBSET off}

\* where the sweeper is after a failed deletion: the except clause has
\* caught the exception and the loop goes on
OnRmtreeErrorMut == "aborted"

OnRmtreeError == "walk"

\* the [ERROR] line the except clause prints for the root it could not delete
ReportedMut(real) == {}

Reported(real) == {real}

\* the loop body for the yielded triple; afterwards os.walk descends into
\* the listed sub-directories
Body ==
  /\ pc = "body"
  /\ listed' = listed \cup cur.dirs
  /\ LET real == root_real(cur.root, links)
         sub == Subtree(real, exists)
     IN  IF ~cur.hasLog
           THEN /\ pc' = "walk"
                /\ stack' = Push(cur.dirs, stack)
                /\ UNCHANGED <<exists, sentinel, locked, links, attempts, errors,
                               skipped, removed>>
         ELSE IF active_dir # None /\ real = active_dir
           THEN /\ skipped' = [skipped EXCEPT ![run] = @ \cup {real}]
                /\ pc' = "walk"
                /\ stack' = Push(cur.dirs, stack)
                /\ UNCHANGED <<exists, sentinel, locked, links, attempts, errors,
                               removed>>
         ELSE /\ attempts' = [attempts EXCEPT ![run] = @ \cup {real}]
              /\ UNCHANGED skipped
              /\ IF real \in exists /\ locked \cap sub = {}
                   THEN \* shutil.rmtree succeeds
                        /\ exists' = exists \ sub
                        /\ sentinel' = sentinel \ sub
                        /\ links' = {l \in links : ~IsPrefix(real, l)}
                        /\ removed' = removed \cup sub
                        /\ pc' = "walk"
                        /\ stack' = Push(cur.dirs, stack)
                        /\ UNCHANGED <<locked, errors>>
                   ELSE \* shutil.rmtree raises: part of the subtree may be gone
                        /\ \E R \in PartialRemovals(real) :
                           \E S \in SUBSET (sentinel \cap LockedPath(real)) :
                           \E K \in SUBSET {l \in links : IsPrefix(real, l)} :
                             /\ exists' = exists \ R
                             /\ sentinel' = (sentinel \ R) \ S
                             /\ links' = links \ K
                             /\ removed' = removed \cup R
                        /\ errors' = [errors EXCEPT ![run] = @ \cup Reported(real)]
                        /\ pc' = OnRmtreeError
                        /\ stack' = IF OnRmtreeError = "walk" THEN Push(cur.dirs, stack) ELSE stack
                        /\ UNCHANGED locked
  /\ cur' = NoCur
  /\ UNCHANGED <<markerExists, marker, run, active_dir, sentinel0, vanished,
                 inUse, adopted, switchCount>>
  /\ UNCHANGED cfgVars

\* os.walk is exhausted: cleanup_tmp_dirs returns; the tool is run once more
Finish ==
  /\ pc = "walk"
  /\ stack = <<>>
  /\ IF run = "first"
       THEN run' = "last" /\ pc' = "start"
       ELSE run' = run /\ pc' = "done"
  /\ UNCHANGED <<exists, sentinel, locked, links, markerExists, marker,
                 active_dir, stack, cur, attempts, errors, skipped, removed,
                 listed, sentinel0, vanished, inUse, adopted, switchCount>>
  /\ UNCHANGED cfgVars

(* ------------------------- the environment ----------------------------- *)
\* the directories os.walk has listed or yielded and not yet dealt with
Pending == UNION {stack[i] : i \in 1..Len(stack)} \cup cur.dirs \cup {cur.root}

\* another process removes a temp directory after os.walk listed it and
\* before the sweeper is done with it
Vanish ==
  /\ pc \in {"walk", "body"}
  /\ Cardinality(vanished) < MaxVanish
  /\ \E d \in (Pending \cap exists) \ {TMP_DIR} :
       /\ ~IsPrefix(d, inUse)
       /\ exists' = exists \ Subtree(d, exists)
       /\ sentinel' = sentinel \ Subtree(d, exists)
       /\ locked' = locked \ Subtree(d, exists)
       /\ vanished' = vanished \cup {d}
  /\ UNCHANGED <<links, markerExists, marker, pc, run, active_dir, stack, cur,
                 attempts, errors, skipped, removed, listed, sentinel0, inUse,
                 adopted, switchCount>>
  /\ UNCHANGED cfgVars

\* the name of the k-th directory the protected process creates
RECURSIVE FreshName(_)
FreshName(k) == IF k = 0 THEN <<>> ELSE Append(FreshName(k - 1), "n")

\* the text of a path: "/" before every component
RECURSIVE PathText(_)
PathText(p) == IF p = <<>> THEN <<>> ELSE <<"/">> \o Head(p) \o PathText(Tail(p))

\* the protected process makes a new working directory under /tmp, puts its
\* log there and appends the path to last_temp.txt
ProcSwitch ==
  /\ pc \in {"start", "walk", "body"}
  /\ switchCount < MaxSwitch
  /\ TMP_DIR \in exists
  /\ LET new == Append(TMP_DIR, FreshName(switchCount + 1))
     IN  /\ exists' = exists \cup {new}
         /\ sentinel' = sentinel \cup {new}
         /\ marker' = Append(marker, PathText(new) \o <<"\n">>)
         /\ markerExists' = TRUE
         /\ inUse' = new
         /\ adopted' = adopted \cup {new}
  /\ switchCount' = switchCount + 1
  /\ UNCHANGED <<locked, links, pc, run, active_dir, stack, cur, attempts, errors,
                 skipped, removed, listed, sentinel0, vanished>>
  /\ UNCHANGED cfgVars

(* ------------------------- the config document ------------------------- *)
\* Element.text of an element without text
NoText == <<"None">>

Absent == [present |-> FALSE, text |-> NoText]
Col(t) == [present |-> TRUE, text |-> t]

Tok(kind, name, short, data) == [tok |-> kind, name |-> name, short |-> short, data |-> data]
Decl == Tok("decl", "", FALSE, <<>>)
RootOpen == Tok("root", "", FALSE, <<>>)
RootClose == Tok("/root", "", FALSE, <<>>)
TableOpen == Tok("table", "", FALSE, <<>>)
TableClose == Tok("/table", "", FALSE, <<>>)

\* ElementTree's _escape_cdata, character by character
EscapeChar(c) ==
  CASE c = "&" -> "&amp;" [] c = "<" -> "&lt;" [] c = ">" -> "&gt;" [] OTHER -> c

\* the parser's reading of one character of text: entities are replaced and
\* a carriage return becomes a line feed
UnescapeChar(w) ==
  CASE w = "&amp;" -> "&" [] w = "&lt;" -> "<" [] w = "&gt;" -> ">"
    [] w = "\r" -> "\n" [] OTHER -> w

\* a column element as tree.write serializes it: an element whose text is
\* None or "" is written in the short form <column ... />
ColumnToken(name, col) ==
  IF col.text = NoText \/ col.text = <<>>
    THEN Tok("column", name, TRUE, <<>>)
    ELSE Tok("column", name, FALSE, [i \in 1..Len(col.text) |-> EscapeChar(col.text[i])])

TableTokens(t) ==
  <<TableOpen>>
    \o (IF t.key.present THEN <<ColumnToken("key", t.key)>> ELSE <<>>)
    \o (IF t.value.present THEN <<ColumnToken("value", t.value)>> ELSE <<>>)
    \o (IF t.ettc.present THEN <<ColumnToken("ettc", t.ettc)>> ELSE <<>>)
    \o <<TableClose>>

RECURSIVE AllTableTokens(_)
AllTableTokens(doc) ==
  IF doc = <<>> THEN <<>> ELSE TableTokens(Head(doc)) \o AllTableTokens(Tail(doc))

\* tree.write(XML_PATH, encoding="utf-8", xml_declaration=True): what it writes
Serialize(doc) == <<Decl, RootOpen>> \o AllTableTokens(doc) \o <<RootClose>>

\* the outcome of parsing: the records, or a ParseError
Parsed(doc) == [ok |-> TRUE, doc |-> doc]
ParseError == [ok |-> FALSE, doc |-> <<>>]

\* the text of a parsed column element
ColumnOf(token) ==
  IF token.short \/ token.data = <<>>
    THEN Col(NoText)
    ELSE Col([i \in 1..Len(token.data) |-> UnescapeChar(token.data[i])])

EmptyTable == [key |-> Absent, value |-> Absent, ettc |-> Absent]

\* the records of a well-formed token sequence, or ParseError; the first
\* column of a name is the one find() returns
RECURSIVE ParseTables(_, _, _, _)
ParseTables(toks, inTable, t, acc) ==
  IF toks = <<>> THEN ParseError
  ELSE LET h == Head(toks)
           rest == Tail(toks)
       IN  IF inTable
             THEN IF h.tok = "/table" THEN ParseTables(rest, FALSE, EmptyTable, Append(acc, t))
                  ELSE IF h.tok = "column"
                    THEN ParseTables(rest, TRUE,
                           IF h.name = "key" /\ ~t.key.present THEN [t EXCEPT !.key = ColumnOf(h)]
                           ELSE IF h.name = "value" /\ ~t.value.present
                             THEN [t EXCEPT !.value = ColumnOf(h)]
                           ELSE IF h.name = "ettc" /\ ~t.ettc.present
                             THEN [t EXCEPT !.ettc = ColumnOf(h)]
                           ELSE t,
                           acc)
                  ELSE ParseError
             ELSE IF h.tok = "table" THEN ParseTables(rest, TRUE, EmptyTable, acc)
                  ELSE IF h.tok = "/root" /\ rest = <<>> THEN Parsed(acc)
                  ELSE ParseError

\* ET.parse(XML_PATH)
Parse(file) ==
  IF Len(file) >= 2 /\ file[1] = Decl /\ file[2] = RootOpen
    THEN ParseTables(SubSeq(file, 3, Len(file)), FALSE, EmptyTable, <<>>)
    ELSE ParseError

(* ------------------------- view_configs -------------------------------- *)
View == <<"v", "i", "e", "w">>

\* x.text or ""
TextOrEmpty(col) == IF col.text = NoText THEN <<>> ELSE col.text

\* the (k, v, d) rows: the records that have a key and a value column
RECURSIVE Rows(_)
Rows(doc) ==
  IF doc = <<>> THEN <<>>
  ELSE LET t == Head(doc)
       IN  (IF t.key.present /\ t.value.present
              THEN << <<TextOrEmpty(t.key), TextOrEmpty(t.value),
                        IF t.ettc.present THEN t.ettc.text ELSE <<>> >> >>
              ELSE <<>>)
           \o Rows(Tail(doc))

RECURSIVE MaxLen(_, _)
MaxLen(rows, field) ==
  IF rows = <<>> THEN 0
  ELSE LET m == MaxLen(Tail(rows), field)
           n == Len(Head(rows)[field])
       IN  IF n > m THEN n ELSE m

view_configs(doc) ==
  LET rows == Rows(doc)
  IN  [rows |-> rows, keyWidth |-> MaxLen(rows, 1), valWidth |-> MaxLen(rows, 2),
       divider |-> MaxLen(rows, 1) + MaxLen(rows, 2) + 15]

NothingShown == [rows |-> <<>>, keyWidth |-> 0, valWidth |-> 0, divider |-> 0]

(* ------------------------- update_config ------------------------------- *)
\* the loop over root.findall(".//table"), from record i on: "True" with the
\* first matching record's value replaced, "False" when none matches, and
\* "AttributeError" when the matching record has no value column
RECURSIVE UpdateFrom(_, _, _, _)
UpdateFrom(doc, i, target_key, new_value) ==
  IF i > Len(doc) THEN [result |-> "False", doc |-> doc]
  ELSE IF doc[i].key.present /\ doc[i].key.text = target_key
    THEN IF doc[i].value.present
           THEN [result |-> "True", doc |-> [doc EXCEPT ![i].value.text = new_value]]
           ELSE [result |-> "AttributeError", doc |-> doc]
  ELSE UpdateFrom(doc, i + 1, target_key, new_value)

update_configMut(doc, target_key, new_value) ==
  LET r == UpdateFrom(doc, 1, target_key, new_value)
  IN  IF r.result = "False" THEN [result |-> "True", doc |-> doc] ELSE r

update_config(doc, target_key, new_value) == UpdateFrom(doc, 1, target_key, new_value)

(* ------------------------- main ---------------------------------------- *)
\* len(sys.argv) < 2, with args standing for sys.argv[1:]
NoArgumentsMut(args) == Len(args) < 2

NoArguments(args) == Len(args) < 1

\* load_xml(): the parsed document; "not found" and exit status 1 when the
\* file is missing; a ParseError is not caught and ends the tool with a
\* traceback and status 1
load_xml(fileExists, file) ==
  IF ~fileExists THEN [outcome |-> "not found", doc |-> <<>>]
  ELSE IF ~Parse(file).ok THEN [outcome |-> "traceback", doc |-> <<>>]
  ELSE [outcome |-> "loaded", doc |-> Parse(file).doc]

\* usage on no argument; otherwise tree = load_xml()
MainStart ==
  /\ cpc = "main"
  /\ IF NoArguments(argv)
       THEN /\ out' = Append(out, "usage")
            /\ exitCode' = 0
            /\ cpc' = "exited"
            /\ UNCHANGED tree
     ELSE LET r == load_xml(cfgExists, disk)
          IN  IF r.outcome = "loaded"
                THEN /\ tree' = r.doc
                     /\ cpc' = "loaded"
                     /\ UNCHANGED <<out, exitCode>>
                ELSE /\ out' = Append(out, r.outcome)
                     /\ exitCode' = 1
                     /\ cpc' = "exited"
                     /\ UNCHANGED tree
  /\ UNCHANGED <<cfgExists, disk, disk0, argv, updated, pending, shown, prompted,
                 restarted>>
  /\ UNCHANGED sweepVars

\* view, or the argument check and update_config
MainDispatch ==
  /\ cpc = "loaded"
  /\ IF argv[1] = View
       THEN /\ shown' = view_configs(tree)
            /\ out' = Append(out, "table")
            /\ exitCode' = 0
            /\ cpc' = "exited"
            /\ UNCHANGED <<tree, updated>>
     ELSE IF Len(argv) # 2
       THEN /\ out' = Append(out, "bad arguments")
            /\ exitCode' = 1
            /\ cpc' = "exited"
            /\ UNCHANGED <<tree, updated, shown>>
     ELSE LET r == update_config(tree, argv[1], argv[2])
          IN  /\ updated' = r.result
              /\ tree' = r.doc
              /\ UNCHANGED shown
              /\ IF r.result = "True"
                   THEN /\ out' = Append(out, "updated")
                        /\ cpc' = "write"
                        /\ UNCHANGED exitCode
                 ELSE IF r.result = "False"
                   THEN /\ out' = Append(out, "key not found")
                        /\ exitCode' = 0
                        /\ cpc' = "exited"
                 ELSE /\ out' = Append(out, "traceback")
                      /\ exitCode' = 1
                      /\ cpc' = "exited"
  /\ UNCHANGED <<cfgExists, disk, disk0, argv, pending, prompted, restarted>>
  /\ UNCHANGED sweepVars

\* tree.write opens XML_PATH for writing, which truncates it
WriteOpen ==
  /\ cpc = "write"
  /\ disk' = <<>>
  /\ pending' = Serialize(tree)
  /\ cpc' = "writing"
  /\ UNCHANGED <<cfgExists, disk0, argv, tree, updated, out, shown, exitCode,
                 prompted, restarted>>
  /\ UNCHANGED sweepVars

\* the next piece of the document reaches the file
WriteChunk ==
  /\ cpc = "writing"
  /\ pending # <<>>
  /\ disk' = Append(disk, Head(pending))
  /\ pending' = Tail(pending)
  /\ UNCHANGED <<cfgExists, disk0, argv, cpc, tree, updated, out, shown, exitCode,
                 prompted, restarted>>
  /\ UNCHANGED sweepVars

\* the file is closed; main goes on to ask_restart
WriteClose ==
  /\ cpc = "writing"
  /\ pending = <<>>
  /\ cpc' = "ask"
  /\ UNCHANGED <<cfgExists, disk, disk0, argv, tree, updated, pending, out, shown,
                 exitCode, prompted, restarted>>
  /\ UNCHANGED sweepVars

\* the process is killed (or the machine stops) during the write
Crash ==
  /\ cpc \in {"write", "writing"}
  /\ cpc' = "crashed"
  /\ UNCHANGED <<cfgExists, disk, disk0, argv, tree, updated, pending, out, shown,
                 exitCode, prompted, restarted>>
  /\ UNCHANGED sweepVars

(* ------------------------- ask_restart --------------------------------- *)
Answers == {<<"y">>, <<" ", "Y", "E", "S", "\n">>, <<"n">>, <<>>, <<"y", "e", "p">>}

Affirmative == {<<"y">>, <<"y", "e", "s">>}

\* input(...).strip().lower() in ("y", "yes")
SaysYes(ans) == Lower(Strip(ans)) \in Affirmative

\* the prompt, and Restart.sh on an affirmative answer; Ctrl-C at the prompt
\* or during the script is caught
ask_restart ==
  /\ cpc = "ask"
  /\ prompted' = TRUE
  /\ \/ \E ans \in Answers :
          IF SaysYes(ans)
            THEN /\ restarted' = TRUE
                 /\ \E outcome \in {"restarted", "restart failed", "interrupted"} :
                      out' = Append(out, outcome)
            ELSE /\ restarted' = FALSE
                 /\ out' = Append(out, "restart skipped")
     \/ /\ restarted' = FALSE
        /\ out' = Append(out, "interrupted")
  /\ exitCode' = 0
  /\ cpc' = "exited"
  /\ UNCHANGED <<cfgExists, disk, disk0, argv, tree, updated, pending, shown>>
  /\ UNCHANGED sweepVars

(* ------------------------- initial states ------------------------------ *)
SweeperIdle ==
  /\ exists = {TMP_DIR} /\ sentinel = {} /\ locked = {} /\ links = {}
  /\ markerExists = FALSE /\ marker = <<>>
  /\ pc = "idle" /\ run = "first" /\ active_dir = None
  /\ stack = <<>> /\ cur = NoCur
  /\ attempts = [r \in Runs |-> {}] /\ errors = [r \in Runs |-> {}]
  /\ skipped = [r \in Runs |-> {}]
  /\ removed = {} /\ listed = {} /\ sentinel0 = {}
  /\ vanished = {} /\ inUse = None /\ adopted = {} /\ switchCount = 0

ConfigIdle ==
  /\ cfgExists = FALSE /\ disk = <<>> /\ disk0 = <<>> /\ argv = <<>>
  /\ cpc = "idle" /\ tree = <<>> /\ updated = "none" /\ pending = <<>>
  /\ out = <<>> /\ shown = NothingShown /\ exitCode = -1
  /\ prompted = FALSE /\ restarted = FALSE

LineA == TmpPrefix \o NameA
LineB == TmpPrefix \o NameB
LineAB == TmpPrefix \o NameA \o <<"/">> \o NameB
LineL == TmpPrefix \o NameL

\* the directory trees a sweep starts from
Trees ==
  {S \in SUBSET (AllDirs \ {TMP_DIR}) :
     /\ Cardinality(S) <= MaxDirs
     /\ \A d \in S : Parent(d) \in S \cup {TMP_DIR}}

\* the marker files a sweep starts from: none, or a stale line and the
\* line of the directory in use
SweepMarkers == {<<>>} \cup {<<LineB, l>> : l \in {LineA, LineAB, LineL}}

\* a file system, a marker file and the sweeper about to start; the logs lie
\* in directories below /tmp, none in /tmp itself
InitFiles ==
  /\ \E S \in Trees : exists = S \cup {TMP_DIR}
  /\ sentinel \in SUBSET (exists \ {TMP_DIR})
  /\ marker \in SweepMarkers
  /\ links = IF LineL \in {marker[i] : i \in 1..Len(marker)} THEN {LinkPath} ELSE {}
  /\ markerExists = (marker # <<>>)
  /\ pc = "start" /\ active_dir = None
  /\ stack = <<>> /\ cur = NoCur
  /\ attempts = [r \in Runs |-> {}] /\ errors = [r \in Runs |-> {}]
  /\ skipped = [r \in Runs |-> {}]
  /\ removed = {} /\ listed = {} /\ sentinel0 = sentinel
  /\ vanished = {} /\ adopted = {} /\ switchCount = 0
  /\ ConfigIdle

\* the directories a deletion can reach: those in or below a sentinel-bearing one
Reachable == UNION {Subtree(d, exists) : d \in sentinel}

SomeLocked == locked \in {L \in SUBSET Reachable : Cardinality(L) <= MaxLocked}

\* the sweeper run twice in a row, some deletions failing
InitSweep == InitFiles /\ SomeLocked /\ run = "first" /\ inUse = None

NextSweep == Start \/ Scan \/ Body \/ Finish

SpecSweep == InitSweep /\ [][NextSweep]_vars

\* one sweep, some deletions failing and directories vanishing meanwhile
InitFault == InitFiles /\ SomeLocked /\ run = "last" /\ inUse = None

NextFault == Start \/ Scan \/ Body \/ Finish \/ Vanish

SpecFault == InitFault /\ [][NextFault]_vars

\* one sweep while the protected process moves to a new directory; the
\* process starts in the directory the marker file names, if there is one
InitRace ==
  /\ InitFiles /\ locked = {} /\ run = "last"
  /\ inUse = LET named == load_active_tmp_dir(markerExists, marker, links)
             IN  IF named \in sentinel THEN named ELSE None

NextRace == Start \/ Scan \/ Body \/ Finish \/ ProcSwitch

SpecRace == InitRace /\ [][NextRace]_vars

(* ------------------------- the resolver alone -------------------------- *)
\* lines a marker file may hold: paths under /tmp (plain, nested, through
\* the link, with surrounding blanks, with a ".." segment), a blank line and
\* lines that do not start with "/tmp/"
MarkerLines ==
  { LineA,
    LineB \o <<"\n">>,
    <<" ", " ">> \o LineA \o <<"/">> \o NameB \o <<"\n">>,
    LineL,
    LineA \o <<"/", ".", ".", "/">> \o NameB,
    <<" ", "\t", "\n">>,
    <<"/", "o", "p", "t", "/">> \o NameA,
    <<"/", "t", "m", "p">> }

\* load_active_tmp_dir() called on its own
ResolveActive ==
  /\ pc = "resolve"
  /\ active_dir' = load_active_tmp_dir(markerExists, marker, links)
  /\ pc' = "resolved"
  /\ UNCHANGED <<exists, sentinel, locked, links, markerExists, marker, run, stack,
                 cur, attempts, errors, skipped, removed, listed, sentinel0,
                 vanished, inUse, adopted, switchCount>>
  /\ UNCHANGED cfgVars

InitResolve ==
  /\ exists = {TMP_DIR} /\ sentinel = {} /\ locked = {}
  /\ links \in SUBSET {LinkPath}
  /\ markerExists \in BOOLEAN
  /\ marker \in SeqsUpTo(MarkerLines, MaxLines)
  /\ (~markerExists => marker = <<>>)
  /\ pc = "resolve" /\ run = "last" /\ active_dir = None
  /\ stack = <<>> /\ cur = NoCur
  /\ attempts = [r \in Runs |-> {}] /\ errors = [r \in Runs |-> {}]
  /\ skipped = [r \in Runs |-> {}]
  /\ removed = {} /\ listed = {} /\ sentinel0 = {}
  /\ vanished = {} /\ inUse = None /\ adopted = {} /\ switchCount = 0
  /\ ConfigIdle

SpecResolve == InitResolve /\ [][ResolveActive]_vars

(* ------------------------- the config tool ----------------------------- *)
KeyK == <<"k">>
KeyJ == <<"j">>
KeyZ == <<"z">>

\* the records a config document is made of: complete ones, two with the
\* same key, one without a value column, one without a key column, and ones
\* whose key or value element is empty
Tables ==
  { [key |-> Col(KeyK), value |-> Col(<<"3", "0">>), ettc |-> Col(<<"d">>)],
    [key |-> Col(KeyK), value |-> Col(<<"7">>), ettc |-> Absent],
    [key |-> Col(KeyJ), value |-> Col(<<"a", "&", "b">>), ettc |-> Absent],
    [key |-> Col(KeyJ), value |-> Absent, ettc |-> Col(<<"d">>)],
    [key |-> Absent, value |-> Col(<<"7">>), ettc |-> Absent],
    [key |-> Col(NoText), value |-> Col(NoText), ettc |-> Col(NoText)] }

Documents == SeqsUpTo(Tables, MaxTables)

\* the new values given on the command line
Values == {<<"6", "0">>, <<>>, <<"<", "x">>}

\* sys.argv[1:]
ArgLists ==
  {<<>>, <<View>>, <<View, KeyK, <<"6", "0">> >>, <<KeyK>>,
   <<KeyK, <<"6", "0">>, <<"x">> >>}
    \cup {<<k, v>> : k \in {KeyK, KeyJ, KeyZ}, v \in Values}

\* a file cut short by an earlier crash
Truncated == <<Decl, RootOpen, TableOpen>>

InitConfig ==
  /\ SweeperIdle
  /\ cfgExists \in BOOLEAN
  /\ disk \in IF cfgExists
                THEN {Serialize(d) : d \in Documents} \cup {Truncated}
                ELSE {<<>>}
  /\ disk0 = disk
  /\ argv \in ArgLists
  /\ cpc = "main" /\ tree = <<>> /\ updated = "none" /\ pending = <<>>
  /\ out = <<>> /\ shown = NothingShown /\ exitCode = -1
  /\ prompted = FALSE /\ restarted = FALSE

NextConfig ==
  MainStart \/ MainDispatch \/ WriteOpen \/ WriteChunk \/ WriteClose \/ Crash
    \/ ask_restart

SpecConfig == InitConfig /\ [][NextConfig]_vars

(* ======================= the claims ==================================== *)

(* ---- C1 ---- *)
\* C1: when cleanup_tmp_dirs has completed without a deletion failure, the
\* sentinel-bearing directory equal to the active directory still exists and
\* every other directory that held the sentinel is gone.
C1_ActiveKeptOthersDeleted ==
  (run = "last" /\ pc = "start" /\ errors["first"] = {}) =>
    /\ (active_dir \in sentinel0 => active_dir \in exists)
    /\ \A d \in sentinel0 \ {active_dir} : d \notin exists

(* ---- C2 ---- *)
\* C2: a directory the protected process moved to while the sweep was running
\* is never deleted while the process is using it.
C2_RaceIsBenign == inUse \in adopted => inUse \in exists

(* ---- C3 ---- *)
\* C3: after a crash during the write that follows a successful update the
\* config file is the complete old document or the complete new one.
C3_SaveIsAtomic ==
  cpc = "crashed" => (disk = disk0 \/ disk = Serialize(tree))

(* ---- C4 ---- *)
KeyPresent(doc, key) ==
  \E i \in 1..Len(doc) : doc[i].key.present /\ doc[i].key.text = key

\* the tool was asked to update a key and has loaded the document
UpdateRequested ==
  /\ Len(argv) = 2
  /\ argv[1] # View
  /\ cpc \notin {"main", "idle"}
  /\ Parse(disk0).ok

\* C4: update_config with a key no record has returns False, leaves the
\* document in memory as loaded, the file is never opened for writing and
\* the restart question is never asked.
C4_UnknownKeyChangesNothing ==
  (UpdateRequested /\ ~KeyPresent(Parse(disk0).doc, argv[1])) =>
    /\ disk = disk0
    /\ ~prompted
    /\ cpc \in {"loaded", "exited"}
    /\ (cpc = "exited" => updated = "False" /\ tree = Parse(disk0).doc /\ exitCode = 0)

C4_Witness ==
  /\ UpdateRequested
  /\ cpc = "exited"
  /\ tree # <<>>
  /\ ~KeyPresent(tree, argv[1])
  /\ updated = "False"

(* ---- C5 ---- *)
FirstWithKey(doc, key) ==
  CHOOSE i \in 1..Len(doc) :
    /\ doc[i].key.present /\ doc[i].key.text = key
    /\ \A j \in 1..(i - 1) : ~(doc[j].key.present /\ doc[j].key.text = key)

\* C5: for every document and key present in it, after update, save and load
\* the first record with the key has the new value and every other record,
\* and the rest of that record, is as before.
C5_UpdateRoundTrips ==
  (UpdateRequested /\ cpc = "exited" /\ KeyPresent(Parse(disk0).doc, argv[1])) =>
    LET old == Parse(disk0).doc
        new == Parse(disk)
        i == FirstWithKey(old, argv[1])
    IN  /\ new.ok
        /\ Len(new.doc) = Len(old)
        /\ new.doc[i].value.present
        /\ new.doc[i].value.text = argv[2]
        /\ new.doc[i].key = old[i].key
        /\ new.doc[i].ettc = old[i].ettc
        /\ \A j \in 1..Len(old) : j # i => new.doc[j] = old[j]

(* ---- C6 ---- *)
\* the lines of the marker file whose text starts with "/tmp/"
RawMatches == {i \in 1..Len(marker) : StartsWith(marker[i], TmpPrefix)}
StrippedMatches == {i \in 1..Len(marker) : StartsWith(Strip(marker[i]), TmpPrefix)}

Last(S) == CHOOSE i \in S : \A j \in S : j <= i

\* C6, as claimed: the result is the canonical path of the last line whose
\* raw text starts with "/tmp/", and None exactly when the file is absent or
\* has no such line.
C6_LastRawLine ==
  pc = "resolved" =>
    IF ~markerExists \/ RawMatches = {}
      THEN active_dir = None
      ELSE active_dir = realpath(Strip(marker[Last(RawMatches)]), links)

\* C6, amended: the same with the line's text stripped of surrounding
\* whitespace before it is compared with the prefix.
C6_LastStrippedLine ==
  pc = "resolved" =>
    IF ~markerExists \/ StrippedMatches = {}
      THEN active_dir = None
      ELSE active_dir = realpath(Strip(marker[Last(StrippedMatches)]), links)

\* an earlier matching line names another directory and is ignored
C6_Witness ==
  /\ pc = "resolved"
  /\ \E i, j \in StrippedMatches :
       /\ i < j
       /\ j = Last(StrippedMatches)
       /\ realpath(Strip(marker[i]), links) # realpath(Strip(marker[j]), links)
       /\ active_dir = realpath(Strip(marker[j]), links)

NotViewNorPair ==
  \/ Len(argv) = 0
  \/ Len(argv) = 1 /\ argv[1] # View
  \/ Len(argv) >= 3

\* C8, as claimed: such an argument list gets the usage text and status 0.
C8_UsageAndZero ==
  (cpc = "exited" /\ NotViewNorPair) =>
    (out = <<"usage">> /\ exitCode = 0)

\* C8, amended: no argument gets the usage text and status 0; one non-view
\* argument, or three or more of which the first is not view, get status 1
\* and a message that is not the usage text, and the file is left alone.
C8_UsageOnlyWithoutArguments ==
  cpc = "exited" =>
    /\ Len(argv) = 0 => (out = <<"usage">> /\ exitCode = 0 /\ disk = disk0)
    /\ (Len(argv) \in {1} \cup (3..Len(argv)) /\ argv[1] # View) =>
         /\ exitCode = 1
         /\ out \in {<<"not found">>, <<"traceback">>, <<"bad arguments">>}
         /\ (cfgExists /\ Parse(disk0).ok => out = <<"bad arguments">>)
         /\ disk = disk0
         /\ ~prompted

C8_Witness ==
  /\ cpc = "exited"
  /\ Len(argv) = 1
  /\ argv[1] # View
  /\ out = <<"bad arguments">>
  /\ exitCode = 1

(* ---- C9 ---- *)
\* a step that keeps the skipped active directory and all below it
KeepsActiveSubtree ==
  active_dir \in skipped[run] =>
    /\ Subtree(active_dir, exists) \subseteq exists'
    /\ (sentinel \cap Subtree(active_dir, exists)) \subseteq sentinel'

\* C9: once the sweep has visited and skipped the active directory, nothing
\* in or below it is deleted for the rest of the sweep.
C9_ActiveSubtreeUntouched == [][KeepsActiveSubtree]_vars

(* ---- C10 ---- *)
\* when the sweep is done, every listed directory that still holds the
\* sentinel is the active one or one whose deletion failed
RestWasSwept ==
  \A d \in listed \cap exists \cap sentinel :
    d = active_dir \/ d \in errors["last"]

\* C10, as claimed: a failed deletion or a vanished directory never aborts
\* the sweep, every such failure is reported, and the sweep deletes every
\* remaining sentinel-bearing directory that is not the active one.
C10_EveryFailureReported ==
  /\ pc # "aborted"
  /\ pc = "done" => (RestWasSwept /\ vanished \subseteq errors["last"])

\* C10, amended: the sweeper is never stopped by an exception; an [ERROR]
\* line is printed only for a directory whose deletion was attempted, so a
\* directory that vanished before os.walk entered it is passed over without
\* any report; and when the sweep is done every listed directory that still
\* holds the sentinel is the active one or one whose deletion failed and was
\* reported.
C10_FailuresAreLocal ==
  /\ pc # "aborted"
  /\ errors["last"] \subseteq attempts["last"]
  /\ pc = "done" => RestWasSwept

\* a deletion failed and was reported, a directory vanished unreported, and
\* another directory was still deleted
C10_Witness ==
  /\ pc = "done"
  /\ errors["last"] # {}
  /\ \E v \in vanished : v \notin attempts["last"]
  /\ \E d \in attempts["last"] \ errors["last"] : d \in removed

====
